---- MODULE Spec2Model ----
(***************************************************************************)
(* pdrun: a supervisor that runs one container application, restores its   *)
(* data at startup, backs it up and updates its image on timers, and       *)
(* terminates its children on shutdown.                                    *)
(*                                                                         *)
(* The model follows the single-threaded tokio program: one action per     *)
(* stretch of code between two await points of a task (run and its         *)
(* workflows, one exit monitor per Process, the Ctrl-C monitor), plus the  *)
(* steps of the world outside the program (a child exits, time passes).    *)
(*                                                                         *)
(* Time has two scales.  The timers of the orchestration loop are instants *)
(* counted in hours (the fixed intervals are 1, 24 and 168 hours).  The    *)
(* grace timer of an exit monitor counts the seconds since it was armed,   *)
(* saturating at the grace period; an hour passing saturates it.           *)
(***************************************************************************)
EXTENDS Integers, Sequences, FiniteSets, TLC

\* Bounds of the model.
MaxRounds == 1
MaxSnapshotAge == 2
MaxImageAge == 2
MaxNow == 170
MaxExitCode == 256

\* timeout(Duration::from_secs(5), ..) in monitor_exit_status.
Grace == 5

VARIABLES
  cfg,        \* the loaded config::Config and the state of the backup directory
  shutdown,   \* the shared async_shutdown::Shutdown: TRUE once shutdown() was called
  ctrlC,      \* TRUE once the operator's Ctrl-C was received by monitor_ctrl_c
  now,        \* the clock, in hours
  procs,      \* every child spawned by Process::new, by order of spawning
  run,        \* the position and the locals of run() and of its workflows
  iv          \* inputs and results of the interval computations (IntervalSpec)

vars == <<cfg, shutdown, ctrlC, now, procs, run, iv>>

-----------------------------------------------------------------------------
\* Option<T> and the values the model stores in it.

None == [some |-> FALSE, v |-> 0]

Some(x) == [some |-> TRUE, v |-> x]

\* std::process::ExitStatus: an exit code, or the signal that killed the child.
Exited(code) == [exited |-> TRUE, n |-> code]

Signaled(sig) == [exited |-> FALSE, n |-> sig]

NoStatus == [exited |-> FALSE, n |-> 0]

ExitCodes == {0, 1}

\* A status test that takes death by a signal for success.
SuccessUnlessCode(st) == ~st.exited \/ st.n = 0

\* ExitStatus::success
Success(st) == st.exited /\ st.n = 0

\* The watch channel of a Process: None, Some(Ok(status)) or Some(Err(..)).
SlotNone == [tag |-> "None", st |-> NoStatus]

SlotOk(st) == [tag |-> "Ok", st |-> st]

SlotErr == [tag |-> "Err", st |-> NoStatus]

\* The channel of a Process whose handle was dropped and whose child is gone.
SlotDropped == [tag |-> "Dropped", st |-> NoStatus]

Populated(slot) == slot.tag \in {"Ok", "Err"}

-----------------------------------------------------------------------------
\* Interval (the fixed intervals), in hours.

FixedIntervals == {"Hourly", "Daily", "Weekly"}

Period(interval) ==
  CASE interval = "Hourly" -> 1
    [] interval = "Daily" -> 24
    [] interval = "Weekly" -> 168

\* chrono::Duration::to_std: an error for a negative duration.
ToStd(d) == IF d < 0 THEN None ELSE Some(d)

\* Interval::next without the catch-up arm.
IntervalNextUnclamped(interval, last, t) ==
  ToStd(((IF last.some THEN last.v ELSE t) + Period(interval)) - t)

\* Interval::next for Hourly, Daily and Weekly; last and now are Option<DateTime>
\* and DateTime, the result is Option<Duration>.
IntervalNext(interval, last, t) ==
  LET next == Some((IF last.some THEN last.v ELSE t) + Period(interval))
  IN  IF next.some /\ next.v >= t THEN ToStd(next.v - t)
      ELSE IF next.some THEN Some(0)
      ELSE None

\* next_backup_time: the Result of .to_std(), which the code unwraps.
NextBackupTime(interval, last, t) ==
  IF last.some /\ last.v + Period(interval) < t
    THEN ToStd((last.v + Period(interval)) - t)
    ELSE ToStd((t + Period(interval)) - t)

\* update.interval.to_duration(now): the wait until the next update.
ToDuration(interval, t) == IntervalNext(interval, None, t).v

-----------------------------------------------------------------------------
\* Process

Kinds == {"restore", "pull_image", "app", "backup", "update"}

\* Process::new after a successful spawn: the child runs, its exit monitor is
\* spawned (not yet polled), the watch channel holds None.
NewProcess(kind) ==
  [kind |-> kind, os |-> "running", status |-> NoStatus, mon |-> "race",
   slot |-> SlotNone, sigterm |-> FALSE, kill |-> "no", dropkill |-> FALSE,
   elapsed |-> 0, handle |-> TRUE]

\* What is left of a Process once its handle, its monitor and its child are gone.
\* elapsed counts the seconds a monitor has waited in its timeout for a running
\* child; it is 0 outside of that wait.
Reaped(kind) ==
  [kind |-> kind, os |-> "exited", status |-> NoStatus, mon |-> "done",
   slot |-> SlotDropped, sigterm |-> FALSE, kill |-> "no", dropkill |-> FALSE,
   elapsed |-> 0, handle |-> FALSE]

\* The fields of a Process that nothing reads any more are reset: once the monitor
\* has returned and the child is gone, the signals sent and the child's own status
\* are history (the channel keeps the result while a handle can read it).
Canon(ps) ==
  [p \in DOMAIN ps |->
     IF ps[p].mon = "done" /\ ps[p].os = "exited"
       THEN IF ps[p].handle
              THEN [Reaped(ps[p].kind) EXCEPT !.handle = TRUE, !.slot = ps[p].slot]
              ELSE Reaped(ps[p].kind)
       ELSE ps[p]]

Pids == DOMAIN procs

Running(p) == procs[p].os = "running"

\* main: block_on ends with run; the LocalSet and its tasks are live until then.
ProgramLive == run.pc # "returned"

\* An exit monitor that returns without send_replace.
FinishSilent(rec, slot) == [rec EXCEPT !.mon = "done", !.elapsed = 0]

\* The exit monitor returns and the task sends its result: send_replace(Some(..)).
Finish(rec, slot) == [rec EXCEPT !.mon = "done", !.slot = slot, !.elapsed = 0]

\* The exit monitor returns an error while it owns the child: the Child is
\* dropped with kill_on_drop(true), which sends SIGKILL to a child not yet reaped;
\* delivered tells whether that kill(2) succeeded.
FinishErr(rec, delivered) ==
  [Finish(rec, SlotErr) EXCEPT !.dropkill = (rec.os = "running" /\ delivered)]

-----------------------------------------------------------------------------
\* monitor_exit_status, one action per await.

\* shutdown.wrap_cancel(child.wait()) yields Some(status): the child has exited;
\* waitOk tells whether wait() gave the status or an io::Error.
MonRaceExit(p) ==
  /\ ProgramLive
  /\ procs[p].mon = "race"
  /\ procs[p].os = "exited"
  /\ \E waitOk \in BOOLEAN :
       procs' = Canon([procs EXCEPT ![p] =
                  IF waitOk THEN Finish(@, SlotOk(@.status)) ELSE FinishErr(@, FALSE)])
  /\ UNCHANGED <<cfg, shutdown, ctrlC, now, run, iv>>

\* A monitor that takes the shutdown arm whether or not the token is raised.
MonCancelledUnraised(p) ==
  /\ ProgramLive
  /\ procs[p].mon = "race"
  /\ \E delivered \in BOOLEAN :
       IF delivered
         THEN procs' = Canon([procs EXCEPT ![p] =
                         [@ EXCEPT !.sigterm = TRUE, !.mon = "grace", !.elapsed = 0]])
         ELSE \E dk \in BOOLEAN :
                procs' = Canon([procs EXCEPT ![p] = FinishErr(@, dk)])
  /\ UNCHANGED <<cfg, shutdown, ctrlC, now, run, iv>>

\* wrap_cancel yields None: shutdown was raised.  kill(child_pid, SIGTERM), and on
\* its failure the ? returns the error.
MonCancelled(p) ==
  /\ ProgramLive
  /\ procs[p].mon = "race"
  /\ shutdown
  /\ \E delivered \in BOOLEAN :
       IF delivered
         THEN procs' = Canon([procs EXCEPT ![p] =
                         [@ EXCEPT !.sigterm = TRUE, !.mon = "grace", !.elapsed = 0]])
         ELSE \E dk \in BOOLEAN :
                procs' = Canon([procs EXCEPT ![p] = FinishErr(@, dk)])
  /\ UNCHANGED <<cfg, shutdown, ctrlC, now, run, iv>>

\* timeout(5 s, child.wait()) yields Ok(status): Timeout polls the child first.
MonGraceExit(p) ==
  /\ ProgramLive
  /\ procs[p].mon = "grace"
  /\ procs[p].os = "exited"
  /\ \E waitOk \in BOOLEAN :
       procs' = Canon([procs EXCEPT ![p] =
                  IF waitOk THEN Finish(@, SlotOk(@.status)) ELSE FinishErr(@, FALSE)])
  /\ UNCHANGED <<cfg, shutdown, ctrlC, now, run, iv>>

\* A timeout whose deadline is a second short.
GraceExpiredEarly(rec) == rec.elapsed >= Grace - 1

\* The deadline of the timeout: 5 seconds after it was armed.
GraceExpired(rec) == rec.elapsed >= Grace

\* timeout yields Err(Elapsed): child.start_kill(), and on its failure the ?
\* returns the error.
MonGraceTimeout(p) ==
  /\ ProgramLive
  /\ procs[p].mon = "grace"
  /\ procs[p].os = "running"
  /\ GraceExpired(procs[p])
  /\ \E killed \in BOOLEAN :
       IF killed
         THEN procs' = Canon([procs EXCEPT ![p] =
                         [@ EXCEPT !.kill = "sent", !.mon = "killwait", !.elapsed = 0]])
         ELSE \E dk \in BOOLEAN :
                procs' = Canon([procs EXCEPT ![p] =
                           FinishErr([@ EXCEPT !.kill = "failed"], dk)])
  /\ UNCHANGED <<cfg, shutdown, ctrlC, now, run, iv>>

\* child.wait() after start_kill.
MonKillWait(p) ==
  /\ ProgramLive
  /\ procs[p].mon = "killwait"
  /\ procs[p].os = "exited"
  /\ \E waitOk \in BOOLEAN :
       procs' = Canon([procs EXCEPT ![p] =
                  IF waitOk THEN Finish(@, SlotOk(@.status)) ELSE FinishErr(@, FALSE)])
  /\ UNCHANGED <<cfg, shutdown, ctrlC, now, run, iv>>

Monitor(p) ==
  \/ MonRaceExit(p)
  \/ MonCancelled(p)
  \/ MonGraceExit(p)
  \/ MonGraceTimeout(p)
  \/ MonKillWait(p)

-----------------------------------------------------------------------------
\* The children, as the operating system runs them.

\* A child exits by itself, at any time while it runs (also from a SIGTERM handler).
\* The model follows the children while the program lives.
ChildExit(p) ==
  /\ ProgramLive
  /\ procs[p].os = "running"
  /\ \E code \in ExitCodes :
       procs' = Canon([procs EXCEPT ![p] =
                  [@ EXCEPT !.os = "exited", !.status = Exited(code), !.elapsed = 0]])
  /\ UNCHANGED <<cfg, shutdown, ctrlC, now, run, iv>>

\* A child dies of the SIGTERM (15) it was sent; it may also ignore the signal.
ChildTerminated(p) ==
  /\ ProgramLive
  /\ procs[p].os = "running"
  /\ procs[p].sigterm
  /\ procs' = Canon([procs EXCEPT ![p] =
                [@ EXCEPT !.os = "exited", !.status = Signaled(15), !.elapsed = 0]])
  /\ UNCHANGED <<cfg, shutdown, ctrlC, now, run, iv>>

\* A child dies of the SIGKILL (9) it was sent, by start_kill or by kill_on_drop.
ChildKilled(p) ==
  /\ ProgramLive
  /\ procs[p].os = "running"
  /\ procs[p].kill = "sent" \/ procs[p].dropkill
  /\ procs' = Canon([procs EXCEPT ![p] =
                [@ EXCEPT !.os = "exited", !.status = Signaled(9), !.elapsed = 0]])
  /\ UNCHANGED <<cfg, shutdown, ctrlC, now, run, iv>>

\* A monitor waits in timeout(5 s, child.wait()) and the child still runs.
InGrace(rec) == rec.mon = "grace" /\ rec.os = "running"

\* monitor_ctrl_c: the operator's Ctrl-C arrives and the task raises shutdown.
CtrlC ==
  /\ ProgramLive
  /\ ~ctrlC
  /\ ctrlC' = TRUE
  /\ shutdown' = TRUE
  /\ UNCHANGED <<cfg, now, procs, run, iv>>

\* A second passes: the armed grace timers advance.
TickSecond ==
  /\ ProgramLive
  /\ \E p \in Pids : InGrace(procs[p]) /\ procs[p].elapsed < Grace
  /\ procs' = [p \in Pids |->
                 IF InGrace(procs[p]) /\ procs[p].elapsed < Grace
                   THEN [procs[p] EXCEPT !.elapsed = @ + 1] ELSE procs[p]]
  /\ UNCHANGED <<cfg, shutdown, ctrlC, now, run, iv>>

\* The instants at which a timer of the loop becomes ready.
Deadlines ==
  {t \in {run.next_backup.v, run.next_update.v} :
     \/ run.next_backup.some /\ t = run.next_backup.v
     \/ run.next_update.some /\ t = run.next_update.v}

\* Hours pass while the loop sleeps in its select!, up to an instant at which one
\* of its timers becomes ready (the clock is followed from deadline to deadline; a
\* workflow takes less than an hour); every armed grace timer is past its
\* deadline then.
TickHour ==
  /\ run.pc = "select"
  /\ \E t \in Deadlines : t > now /\ now' = t
  /\ procs' = [p \in Pids |->
                 IF InGrace(procs[p])
                   THEN [procs[p] EXCEPT !.elapsed = Grace] ELSE procs[p]]
  /\ UNCHANGED <<cfg, shutdown, ctrlC, run, iv>>

-----------------------------------------------------------------------------
\* The configuration and what the external commands can answer.

\* A strategy that stops the application whatever is configured.
StoppingAppAlways == TRUE

\* backup.strategy.unwrap_or_default() == BackupStrategy::StopApp
StoppingApp == (IF cfg.strategy = "unset" THEN "stop_app" ELSE cfg.strategy) = "stop_app"

\* config.update.unwrap_or_default(): daily when no update policy is configured.
UpdateInterval == IF cfg.update = "unset" THEN "Daily" ELSE cfg.update

\* image_info::image_creation_time: Ok(None), Ok(Some(created)) or an error.
\* The image is unknown, was created just now, or MaxImageAge hours ago.
ImageTimes == {None, Some(now), Some(now - MaxImageAge)}

ImageResults ==
  {[ok |-> TRUE, time |-> t] : t \in ImageTimes} \cup {[ok |-> FALSE, time |-> None]}

\* restic::get_latest_snapshot_time: the time of the latest snapshot, if any.
SnapshotTimes == {None} \cup {Some(now - a) : a \in 1..MaxSnapshotAge}

\* The Result<ExitStatus> that run, a workflow or a monitor hands on.
ResNone == [tag |-> "None", st |-> NoStatus]

ResOk(st) == [tag |-> "Ok", st |-> st]

ResErr == [tag |-> "Err", st |-> NoStatus]

ResPanic == [tag |-> "Panic", st |-> NoStatus]

\* Process::wait on a populated channel.
WaitResult(rec) == IF rec.slot.tag = "Ok" THEN ResOk(rec.slot.st) ELSE ResErr

Spawn(ps, kind) == Append(ps, NewProcess(kind))

DropHandle(ps, p) == [ps EXCEPT ![p].handle = FALSE]

\* The tasks of the LocalSet and the Process handles are dropped when block_on
\* returns: a monitor that has not finished is dropped with its Child
\* (kill_on_drop), and the channels are gone.
Abort(rec, delivered) ==
  IF rec.os = "exited"
    THEN Reaped(rec.kind)
    ELSE [NewProcess(rec.kind) EXCEPT
            !.handle = FALSE, !.slot = SlotDropped,
            !.mon = IF rec.mon = "done" THEN "done" ELSE "aborted",
            !.dropkill = IF rec.mon = "done" THEN rec.dropkill ELSE delivered]

\* run returns (or panics) with res; main's block_on returns with it.
Return(res, ps) ==
  /\ run' = [run EXCEPT !.pc = "returned", !.result = res]
  /\ \E delivered \in BOOLEAN :
       procs' = Canon([p \in DOMAIN ps |-> Abort(ps[p], delivered)])

\* A main that casts the code to u8.
MainStatusTruncating(res) ==
  IF res.tag = "Ok" /\ res.st.exited THEN res.st.n % 256 ELSE 1

\* main: the exit code of the program for what run gave block_on:
\* .code().unwrap_or(1).try_into().unwrap_or(1) for Ok(status), the failure code
\* of a main that returns Err, the code of a panic.
MainStatus(res) ==
  CASE res.tag = "Ok" ->
         LET code == IF res.st.exited THEN res.st.n ELSE 1
         IN  IF 0 <= code /\ code <= 255 THEN code ELSE 1
    [] res.tag = "Err" -> 1
    [] OTHER -> 101

\* main: block_on has returned; the program exits.
MainExit ==
  /\ run.pc = "returned"
  /\ ~run.exit.some
  /\ run' = [run EXCEPT !.exit = Some(MainStatus(run.result))]
  /\ UNCHANGED <<cfg, shutdown, ctrlC, now, procs, iv>>

\* The model follows the loop for run.rounds workflows (MaxRounds, and one more
\* from a tie of the two timers): each workflow that got past its first step has
\* spawned one backup or update process.
Room == Cardinality({p \in Pids : procs[p].kind \in {"backup", "update"}}) < run.rounds

-----------------------------------------------------------------------------
\* run, up to the loop.

\* A restore that does not look at backup.src.
SrcNeverExists == FALSE

\* restore: backup.src.exists()
SrcExists == cfg.src_exists

\* run: restore(backup) when a backup is configured.  restore: skip when
\* backup.src exists, else Process::new("restore") and wait.
RunRestore ==
  /\ run.pc = "start"
  /\ \/ /\ ~cfg.backup \/ SrcExists
        /\ run' = [run EXCEPT !.pc = "init_pull"]
        /\ procs' = procs
     \/ /\ cfg.backup /\ ~SrcExists
        /\ \E spawned \in BOOLEAN :
             IF spawned
               THEN /\ procs' = Spawn(procs, "restore")
                    /\ run' = [run EXCEPT !.pc = "restore_wait", !.child = Len(procs) + 1]
               ELSE Return(ResErr, procs)
  /\ UNCHANGED <<cfg, shutdown, ctrlC, now, iv>>

\* A restore that is started and not waited for.
RestoreNotAwaited ==
  /\ run.pc = "restore_wait"
  /\ run' = [run EXCEPT !.pc = "init_pull", !.child = 0]
  /\ procs' = Canon(DropHandle(procs, run.child))
  /\ UNCHANGED <<cfg, shutdown, ctrlC, now, iv>>

\* restore: process.wait() resolved; only an error of the wait fails the restore.
RestoreWaited ==
  /\ run.pc = "restore_wait"
  /\ Populated(procs[run.child].slot)
  /\ IF WaitResult(procs[run.child]).tag = "Ok"
       THEN /\ run' = [run EXCEPT !.pc = "init_pull", !.child = 0]
            /\ procs' = Canon(DropHandle(procs, run.child))
       ELSE Return(ResErr, procs)
  /\ UNCHANGED <<cfg, shutdown, ctrlC, now, iv>>

\* run, after init_pull_image returned Ok: next_update, Process::new("app"), and
\* get_latest_snapshot_time when a backup is configured.
StartApp(ps) ==
  \E spawned \in BOOLEAN :
    IF spawned
      THEN /\ procs' = Spawn(ps, "app")
           /\ run' = [run EXCEPT !.pc = IF cfg.backup THEN "snapshot" ELSE "select",
                                 !.child = 0,
                                 !.process = Len(ps) + 1,
                                 !.next_update =
                                    Some(now + ToStd((now + Period(UpdateInterval)) - now).v)]
      ELSE Return(ResErr, ps)

\* init_pull_image: the image is read; an image older than the interval is not
\* pulled, else Process::new("pull_image") and wait.
InitPullImage ==
  /\ run.pc = "init_pull"
  /\ \E r \in ImageResults :
       IF r.ok /\ r.time.some /\ r.time.v + Period(UpdateInterval) < now
         THEN StartApp(procs)
         ELSE \E spawned \in BOOLEAN :
                IF spawned
                  THEN /\ procs' = Spawn(procs, "pull_image")
                       /\ run' = [run EXCEPT !.pc = "pull_wait", !.child = Len(procs) + 1]
                  ELSE Return(ResErr, procs)
  /\ UNCHANGED <<cfg, shutdown, ctrlC, now, iv>>

\* init_pull_image: process.wait() resolved, the image is read again.
PullWaited ==
  /\ run.pc = "pull_wait"
  /\ Populated(procs[run.child].slot)
  /\ IF WaitResult(procs[run.child]).tag = "Ok"
       THEN /\ run' = [run EXCEPT !.pc = "pull_query", !.child = 0]
            /\ procs' = Canon(DropHandle(procs, run.child))
       ELSE Return(ResErr, procs)
  /\ UNCHANGED <<cfg, shutdown, ctrlC, now, iv>>

\* init_pull_image: image_creation_time answered after the pull.
PullQueried ==
  /\ run.pc = "pull_query"
  /\ \E r \in ImageResults :
       IF r.ok THEN StartApp(procs) ELSE Return(ResErr, procs)
  /\ UNCHANGED <<cfg, shutdown, ctrlC, now, iv>>

\* run: get_latest_snapshot_time answered; next_backup from next_backup_time, whose
\* unwrap panics on a negative duration.
SnapshotRead ==
  /\ run.pc = "snapshot"
  /\ \E last \in SnapshotTimes :
       LET d == NextBackupTime(cfg.interval, last, now)
       IN  IF d.some
             THEN /\ run' = [run EXCEPT !.pc = "select",
                                        !.next_backup = Some(now + d.v)]
                  /\ procs' = procs
             ELSE Return(ResPanic, procs)
  /\ UNCHANGED <<cfg, shutdown, ctrlC, now, iv>>

-----------------------------------------------------------------------------
\* The workflows and the loop of run.

\* A token that a second shutdown() lowers again.
TerminateAndWaitToggles == shutdown' = ~shutdown

\* Process::terminate_and_wait, up to its wait: self.shutdown.shutdown() on the
\* Shutdown the Process was given, which is a clone of the one run was given.
TerminateAndWait == shutdown' = TRUE

\* start_backup: Process::new("backup").
SpawnBackup(ps) ==
  \E spawned \in BOOLEAN :
    IF spawned
      THEN /\ procs' = Spawn(ps, "backup")
           /\ run' = [run EXCEPT !.pc = "backup_wait", !.child = Len(ps) + 1]
      ELSE Return(ResErr, ps)

\* select!: sleep_until_or_forever(next_backup) is ready.  start_backup, up to its
\* first await: the wait of terminate_and_wait (StopApp) or of the backup process.
BackupFires ==
  /\ run.pc = "select"
  /\ run.next_backup.some /\ now >= run.next_backup.v
  /\ Room
  /\ IF StoppingApp
       THEN /\ TerminateAndWait
            /\ run' = [run EXCEPT !.pc = "backup_stop"]
            /\ procs' = procs
       ELSE /\ SpawnBackup(procs)
            /\ shutdown' = shutdown
  /\ UNCHANGED <<cfg, ctrlC, now, iv>>

\* start_backup: terminate_and_wait resolved, its result is dropped.
BackupAppStopped ==
  /\ run.pc = "backup_stop"
  /\ Populated(procs[run.process].slot)
  /\ SpawnBackup(procs)
  /\ UNCHANGED <<cfg, shutdown, ctrlC, now, iv>>

\* run, after start_backup returned Ok: last_backup = Some(Utc::now()) and
\* next_backup; last_backup is read by next_backup_time only, right away.
BackupDone(ps, app) ==
  /\ procs' = Canon(ps)
  /\ run' = [run EXCEPT !.pc = "select", !.child = 0, !.process = app,
                        !.next_backup =
                           Some(now + NextBackupTime(cfg.interval, Some(now), now).v)]

\* start_backup: the wait for the backup process resolved.
BackupWaited ==
  /\ run.pc = "backup_wait"
  /\ Populated(procs[run.child].slot)
  /\ LET res == WaitResult(procs[run.child])
     IN  IF res.tag = "Ok" /\ Success(res.st)
           THEN IF StoppingApp
                  THEN \E spawned \in BOOLEAN :
                         IF spawned
                           THEN BackupDone(
                                  Spawn(DropHandle(DropHandle(procs, run.child),
                                                   run.process), "app"),
                                  Len(procs) + 1)
                           ELSE Return(ResErr, procs)
                  ELSE BackupDone(DropHandle(procs, run.child), run.process)
           ELSE Return(ResErr, procs)
  /\ UNCHANGED <<cfg, shutdown, ctrlC, now, iv>>

\* select!: sleep_until(next_update) is ready.  start_update, up to its first
\* await: image_creation_time.
UpdateFires ==
  /\ run.pc = "select"
  /\ run.next_update.some /\ now >= run.next_update.v
  /\ Room
  /\ run' = [run EXCEPT !.pc = "update_old"]
  /\ UNCHANGED <<cfg, shutdown, ctrlC, now, procs, iv>>

\* start_update: old_time is read, Process::new("update").
UpdateOldRead ==
  /\ run.pc = "update_old"
  /\ \E r \in ImageResults, spawned \in BOOLEAN :
       IF r.ok /\ spawned
         THEN /\ procs' = Spawn(procs, "update")
              /\ run' = [run EXCEPT !.pc = "update_wait", !.child = Len(procs) + 1,
                                    !.old_time = r.time]
         ELSE Return(ResErr, procs)
  /\ UNCHANGED <<cfg, shutdown, ctrlC, now, iv>>

\* start_update: the wait for the update process resolved.
UpdateWaited ==
  /\ run.pc = "update_wait"
  /\ Populated(procs[run.child].slot)
  /\ IF WaitResult(procs[run.child]).tag = "Ok"
       THEN /\ run' = [run EXCEPT !.pc = "update_new", !.child = 0]
            /\ procs' = Canon(DropHandle(procs, run.child))
       ELSE Return(ResErr, procs)
  /\ UNCHANGED <<cfg, shutdown, ctrlC, now, iv>>

\* run, after start_update returned Ok: next_update.
UpdateDone(ps, app) ==
  /\ procs' = Canon(ps)
  /\ run' = [run EXCEPT !.pc = "select", !.process = app, !.old_time = None,
                        !.next_update = Some(now + ToDuration(UpdateInterval, now))]

\* A comparison that takes an unknown time for no change.
ImageUpdatedKnown(new_time, old_time) ==
  new_time.some /\ old_time.some /\ new_time # old_time

\* start_update: new_time != old_time.
ImageUpdated(new_time, old_time) == new_time # old_time

\* start_update: image_creation_time answered r after the pull; new_time is
\* compared with old_time, and the application is terminated when they differ.
UpdateNewReadAs(r) ==
  /\ run.pc = "update_new"
  /\ IF ~r.ok
       THEN Return(ResErr, procs) /\ shutdown' = shutdown
       ELSE IF ImageUpdated(r.time, run.old_time)
              THEN /\ TerminateAndWait
                   /\ run' = [run EXCEPT !.pc = "update_stop", !.old_time = None]
                   /\ procs' = procs
              ELSE /\ UpdateDone(procs, run.process)
                   /\ shutdown' = shutdown
  /\ UNCHANGED <<cfg, ctrlC, now, iv>>

UpdateNewRead == \E r \in ImageResults : UpdateNewReadAs(r)

\* start_update: terminate_and_wait resolved, Process::new("app").
UpdateAppStopped ==
  /\ run.pc = "update_stop"
  /\ Populated(procs[run.process].slot)
  /\ \E spawned \in BOOLEAN :
       IF WaitResult(procs[run.process]).tag = "Ok" /\ spawned
         THEN UpdateDone(Spawn(DropHandle(procs, run.process), "app"), Len(procs) + 1)
         ELSE Return(ResErr, procs)
  /\ UNCHANGED <<cfg, shutdown, ctrlC, now, iv>>

\* A select! whose process.wait() is ready whatever the slot holds.
AppExitedUnresolved ==
  /\ run.pc = "select"
  /\ Return(WaitResult(procs[run.process]), procs)
  /\ UNCHANGED <<cfg, shutdown, ctrlC, now, iv>>

\* A select! without the process.wait() branch.
AppExitedNever == FALSE /\ UNCHANGED vars
\* select!: process.wait() is ready; run returns the status.
AppExited ==
  /\ run.pc = "select"
  /\ Populated(procs[run.process].slot)
  /\ Return(WaitResult(procs[run.process]), procs)
  /\ UNCHANGED <<cfg, shutdown, ctrlC, now, iv>>

-----------------------------------------------------------------------------
\* The program.

\* The configurations the model starts from: with and without a backup policy, the
\* three settings of backup.strategy, the backup directory present or missing, and
\* the update policy configured hourly or left to its default.
Config(backup, strategy, src_exists, update) ==
  [backup |-> backup, strategy |-> strategy, interval |-> "Hourly",
   src_exists |-> src_exists, update |-> update]

Configs ==
  {Config(FALSE, "unset", FALSE, "unset"),
   Config(FALSE, "unset", FALSE, "Hourly"),
   Config(TRUE, "unset", FALSE, "unset"),
   Config(TRUE, "stop_app", TRUE, "Hourly"),
   Config(TRUE, "live", TRUE, "Hourly"),
   Config(TRUE, "live", FALSE, "unset")}

RunInit ==
  [pc |-> "start", process |-> 0, child |-> 0, next_backup |-> None,
   next_update |-> None, old_time |-> None, result |-> ResNone, exit |-> None,
   rounds |-> MaxRounds]

IvIdle ==
  [phase |-> "idle", interval |-> "Hourly", last |-> None, now |-> 0,
   next |-> None, backup_time |-> None]

Init ==
  /\ cfg \in Configs
  /\ shutdown = FALSE
  /\ ctrlC = FALSE
  /\ now = 0
  /\ procs = <<>>
  /\ run = RunInit
  /\ iv = IvIdle

RunStep ==
  \/ RunRestore
  \/ RestoreWaited
  \/ InitPullImage
  \/ PullWaited
  \/ PullQueried
  \/ SnapshotRead
  \/ BackupFires
  \/ BackupAppStopped
  \/ BackupWaited
  \/ UpdateFires
  \/ UpdateOldRead
  \/ UpdateWaited
  \/ UpdateNewRead
  \/ UpdateAppStopped
  \/ AppExited

Next ==
  \/ RunStep
  \/ \E p \in Pids : Monitor(p)
  \/ \E p \in Pids : ChildExit(p)
  \/ \E p \in Pids : ChildTerminated(p)
  \/ \E p \in Pids : ChildKilled(p)
  \/ CtrlC
  \/ TickSecond
  \/ TickHour
  \/ MainExit

Spec == Init /\ [][Next]_vars

\* The model holds at most this many processes: restore, pull_image and app, then
\* a backup or update process and a respawned app for each workflow.
MaxPids == 3 + 2 * MaxRounds

\* Scheduling: the runtime polls every task that is ready (run, each exit monitor),
\* a child that was sent SIGKILL dies, and the seconds of an armed grace timer
\* pass.  Nothing makes a child exit by itself or die of SIGTERM, nothing makes the
\* operator press Ctrl-C, and the hours need not pass.
Fairness ==
  /\ WF_vars(RunStep)
  /\ \A p \in 1..MaxPids : WF_vars(p \in Pids /\ Monitor(p))
  /\ \A p \in 1..MaxPids : WF_vars(p \in Pids /\ ChildKilled(p))
  /\ WF_vars(TickSecond)

\* The configurations the progress of the program is followed from: no backup
\* policy, and the default strategy with a restore, both with the default update
\* policy.
FairConfigs ==
  {Config(FALSE, "unset", FALSE, "unset"),
   Config(TRUE, "unset", FALSE, "unset")}

FairInit == Init /\ cfg \in FairConfigs

FairSpec == FairInit /\ [][Next]_vars /\ Fairness

-----------------------------------------------------------------------------
\* The interval computations, on their own: Interval::next and next_backup_time
\* for every fixed interval, every now up to MaxNow hours and every last <= now.

IntervalInputs ==
  {[phase |-> "input", interval |-> i, last |-> l, now |-> t,
    next |-> None, backup_time |-> None] :
     i \in FixedIntervals, t \in 0..MaxNow,
     l \in {None} \cup {Some(x) : x \in 0..MaxNow}}

IntervalInit ==
  /\ cfg = Config(TRUE, "unset", FALSE, "unset")
  /\ shutdown = FALSE
  /\ ctrlC = FALSE
  /\ now = 0
  /\ procs = <<>>
  /\ run = RunInit
  /\ iv \in {i \in IntervalInputs : i.last.some => i.last.v <= i.now}

\* interval.next(last, now)
CallIntervalNext ==
  /\ iv.phase = "input"
  /\ iv' = [iv EXCEPT !.phase = "next",
                      !.next = IntervalNext(iv.interval, iv.last, iv.now)]
  /\ UNCHANGED <<cfg, shutdown, ctrlC, now, procs, run>>

\* next_backup_time(backup, last) at the instant now
CallNextBackupTime ==
  /\ iv.phase = "next"
  /\ iv' = [iv EXCEPT !.phase = "done",
                      !.backup_time = NextBackupTime(iv.interval, iv.last, iv.now)]
  /\ UNCHANGED <<cfg, shutdown, ctrlC, now, procs, run>>

IntervalStep ==
  \/ CallIntervalNext
  \/ CallNextBackupTime

IntervalSpec == IntervalInit /\ [][IntervalStep]_vars

-----------------------------------------------------------------------------
\* The exit of the program, on its own: run sleeps in its select! with no timer
\* ready and no shutdown, and the application has exited by itself, with every
\* code from -1 to MaxExitCode, or was killed by a signal, or its wait failed.

ExitSlots ==
  {SlotOk(Exited(c)) : c \in -1..MaxExitCode}
    \cup {SlotOk(Signaled(9)), SlotOk(Signaled(15)), SlotErr}

ExitInit ==
  /\ cfg = Config(FALSE, "unset", FALSE, "unset")
  /\ shutdown = FALSE
  /\ ctrlC = FALSE
  /\ now = 0
  /\ \E slot \in ExitSlots :
       procs = <<[Reaped("app") EXCEPT !.handle = TRUE, !.slot = slot]>>
  /\ run = [RunInit EXCEPT !.pc = "select", !.process = 1,
                           !.next_update = Some(Period(UpdateInterval))]
  /\ iv = IvIdle

ExitStep ==
  \/ AppExited
  \/ MainExit

ExitSpec == ExitInit /\ [][ExitStep]_vars

\* The loop at a tie: run sleeps in its select! with the application running and
\* both timers armed for the same instant, which has come; the operator does not
\* interfere.  The state is the one run is in one hour after a startup with the
\* backup directory present, a fresh image, no snapshot, and both policies hourly.
TieRounds == MaxRounds + 1

TieConfigs ==
  {Config(TRUE, "stop_app", TRUE, "Hourly"), Config(TRUE, "live", TRUE, "Hourly")}

TieInit ==
  /\ cfg \in TieConfigs
  /\ shutdown = FALSE
  /\ ctrlC = FALSE
  /\ now = 1
  /\ procs = <<NewProcess("app")>>
  /\ run = [RunInit EXCEPT !.pc = "select", !.process = 1,
                           !.next_backup = Some(1), !.next_update = Some(1),
                           !.rounds = TieRounds]
  /\ iv = IvIdle

TieStep ==
  \/ BackupFires
  \/ BackupAppStopped
  \/ BackupWaited
  \/ UpdateFires
  \/ UpdateOldRead
  \/ UpdateWaited
  \/ UpdateNewRead
  \/ UpdateAppStopped
  \/ AppExited
  \/ \E p \in Pids : Monitor(p)
  \/ \E p \in Pids : ChildExit(p)
  \/ \E p \in Pids : ChildTerminated(p)
  \/ \E p \in Pids : ChildKilled(p)
  \/ TickSecond
  \/ TickHour
  \/ MainExit

TieSpec == TieInit /\ [][TieStep]_vars

-----------------------------------------------------------------------------
\* The claims.

\* The processes of a kind, in the order they were spawned.
OfKind(kind) == {p \in Pids : procs[p].kind = kind}

\* C1 (as stated): in a run in which the operator never raises shutdown, the
\* shutdown token is never raised and no exit monitor sends a termination signal
\* to its process, whatever terminate_and_wait was called on.
C1_TerminateLeavesShutdown ==
  ~ctrlC => ~shutdown /\ \A p \in Pids : ~procs[p].sigterm

\* C2: while a Process is held, its exit-status slot is empty exactly until its
\* exit monitor has returned and populated from then on; the step that populates
\* it is the return of the monitor, an Ok slot holds the status the child exited
\* with, and a populated slot never changes.
C2_SlotPopulatedOnce ==
  /\ [](\A p \in Pids :
          procs[p].handle =>
            /\ Populated(procs[p].slot) <=> procs[p].mon = "done"
            /\ ~Populated(procs[p].slot) => procs[p].slot = SlotNone)
  /\ [][\A p \in Pids :
          procs[p].handle /\ procs'[p].handle =>
            /\ Populated(procs[p].slot) => procs'[p].slot = procs[p].slot
            /\ procs[p].slot = SlotNone /\ procs'[p].slot # SlotNone =>
                 /\ procs[p].mon # "done" /\ procs'[p].mon = "done"
                 /\ procs'[p].slot.tag = "Ok" =>
                      /\ procs[p].os = "exited"
                      /\ procs'[p].slot.st = procs[p].status]_vars

\* A force-killed child's status was sent to a Process still held.
C2_ForcedKillRecorded ==
  \E p \in Pids : procs[p].handle /\ procs[p].slot = SlotOk(Signaled(9))

\* The Process whose wait() run is suspended in, 0 when it is in none.
Awaited ==
  CASE run.pc \in {"restore_wait", "pull_wait", "backup_wait", "update_wait"} -> run.child
    [] run.pc \in {"backup_stop", "update_stop"} -> run.process
    [] OTHER -> 0

\* C3: a wait() resolves only once the slot is populated, and every wait() on a
\* populated slot returns the same value, whenever it is called: the value a
\* wait() returns on a Process does not change while the Process is held, run
\* leaves a wait() only with the slot populated, and the status run returns from
\* the select! is the value of the application's slot.
C3_WaitReplayable ==
  [][/\ \A p \in Pids :
          procs[p].handle /\ procs'[p].handle /\ Populated(procs[p].slot) =>
            WaitResult(procs'[p]) = WaitResult(procs[p])
     /\ Awaited # 0 /\ run' # run => Populated(procs[Awaited].slot)
     /\ run.pc = "select" /\ run'.pc = "returned" =>
          \/ /\ Populated(procs[run.process].slot)
             /\ run'.result = WaitResult(procs[run.process])
          \/ /\ run.next_backup.some /\ now >= run.next_backup.v
             /\ run'.result = ResErr]_vars

\* The application's slot is populated while run is suspended in the wait() on
\* the backup process: the select! reads the application's slot later.
C3_AppResolvedDuringBackup ==
  /\ run.pc = "backup_wait"
  /\ Populated(procs[run.process].slot)
  /\ ~Populated(procs[run.child].slot)

TimersPending ==
  /\ run.pc = "select"
  /\ run.next_backup.some => now < run.next_backup.v
  /\ run.next_update.some => now < run.next_update.v

\* C5: when shutdown is raised while the loop is suspended in its select! with
\* the backup and update instants still in the future, run returns; it does so
\* whether or not the hours pass (the clock is under no fairness), so the sleep
\* in progress does not hold the loop.
C5_ShutdownEndsTimerWait == (shutdown /\ TimersPending) ~> (run.pc = "returned")

\* run has returned after the operator's Ctrl-C with both timers still pending.
C5_ReturnedBeforeTimers ==
  /\ run.pc = "returned" /\ ctrlC
  /\ run.next_backup.some /\ now < run.next_backup.v
  /\ run.next_update.some /\ now < run.next_update.v
  /\ Cardinality(OfKind("backup") \cup OfKind("update")) = 0

\* C6 (as stated): under the stopping strategy, once a backup has succeeded and
\* run is back in its select! with the respawned application, and the operator has
\* raised no shutdown, the application is not signaled: its exit monitor has sent
\* it no SIGTERM.  (Configurations with the default update policy: no update has
\* run by then.)
C6_RespawnedAppNotSignaled ==
  /\ cfg.backup /\ cfg.strategy # "live" /\ cfg.update = "unset"
  /\ ~ctrlC
  /\ run.pc = "select"
  /\ OfKind("backup") # {} /\ OfKind("update") = {}
  => ~procs[run.process].sigterm

\* C7: under the live strategy the steps of start_backup (the timer fires and the
\* backup process is spawned; the backup succeeds and run is back in its select!)
\* raise no shutdown, send the application no signal and leave the current
\* application the very process it was; the application is never stopped for a
\* backup.
C7_LiveBackupKeepsApp ==
  [][cfg.strategy = "live" =>
       /\ run'.pc # "backup_stop"
       /\ run.pc = "select" /\ run'.pc = "backup_wait" =>
            /\ shutdown' = shutdown
            /\ run'.process = run.process
            /\ procs'[run.process] = procs[run.process]
            /\ procs'[run'.child].kind = "backup"
       /\ run.pc = "backup_wait" /\ run'.pc = "select" =>
            /\ shutdown' = shutdown
            /\ run'.process = run.process
            /\ procs'[run.process] = procs[run.process]
            /\ Len(procs') = Len(procs)]_vars

\* A live backup has completed and the application it started with still runs,
\* unsignaled, as the current application.
C7_AppRunsAfterLiveBackup ==
  /\ cfg.strategy = "live"
  /\ run.pc = "select"
  /\ \E p \in OfKind("backup") : procs[p].mon = "done"
  /\ Cardinality(OfKind("app")) = 1
  /\ procs[run.process].os = "running"
  /\ procs[run.process].mon = "race"
  /\ ~shutdown

\* C8: when the image time read after the pull equals old_time, start_update
\* returns in the same step with the processes, the shutdown token and the current
\* application unchanged; when it differs, terminate_and_wait is called on the
\* current application and nothing is spawned before its slot is populated, and
\* then either a new application process is spawned and made current or run
\* returns an error.
C8_UpdateRestartsOnChange ==
  [][/\ \A r \in ImageResults :
          r.ok /\ UpdateNewReadAs(r) =>
            IF r.time = run.old_time
              THEN /\ run'.pc = "select"
                   /\ run'.process = run.process
                   /\ procs' = procs
                   /\ shutdown' = shutdown
              ELSE /\ run'.pc = "update_stop"
                   /\ run'.process = run.process
                   /\ procs' = procs
                   /\ shutdown'
     /\ run.pc = "update_stop" /\ run' # run =>
          /\ Populated(procs[run.process].slot)
          /\ \/ run'.pc = "returned" /\ run'.result = ResErr
             \/ /\ run'.pc = "select"
                /\ run'.process = Len(procs) + 1
                /\ Len(procs') = Len(procs) + 1
                /\ procs'[run'.process] = NewProcess("app")]_vars

\* An update without a backup policy has found the image changed: the old
\* application was terminated and a new one is the current application.
C8_RestartedByUpdate ==
  /\ ~cfg.backup
  /\ run.pc = "select"
  /\ Cardinality(OfKind("update")) = 1
  /\ Cardinality(OfKind("app")) = 2
  /\ procs[run.process].kind = "app"
  /\ procs[run.process].os = "running"

\* C9: no restore process is ever spawned when backup.src exists, and startup
\* goes on to the image without spawning anything; when a backup is configured and
\* backup.src does not exist, exactly one restore process is spawned, and run goes
\* past the wait for it only with its slot populated.
C9_RestoreSkippedOrOnce ==
  /\ [](/\ cfg.src_exists => OfKind("restore") = {}
        /\ Cardinality(OfKind("restore")) <= 1
        /\ cfg.backup /\ ~cfg.src_exists /\ run.pc \notin {"start", "returned"} =>
             OfKind("restore") = {1}
        /\ OfKind("app") # {} /\ OfKind("restore") # {} =>
             procs[1].mon = "done" /\ ~procs[1].handle)
  /\ [][/\ run.pc = "start" /\ cfg.src_exists /\ run' # run =>
             run'.pc = "init_pull" /\ procs' = procs
        /\ run.pc = "restore_wait" /\ run' # run =>
             Populated(procs[run.child].slot)]_vars

\* The restore process was spawned and waited for, and the application runs.
C9_RestoredThenApp ==
  /\ ~cfg.src_exists
  /\ OfKind("restore") = {1}
  /\ run.pc = "select"
  /\ procs[run.process].os = "running"

\* C10: for the fixed intervals and every last <= now, Interval::next returns
\* candidate - now when candidate >= now and zero when candidate < now, where
\* candidate is (last, or now when last is None) plus 1, 24 or 168 hours; the
\* result is never negative and now + next(last, now) is never before now.
C10_IntervalNext ==
  iv.phase \in {"next", "done"} =>
    LET period == CASE iv.interval = "Hourly" -> 1
                    [] iv.interval = "Daily" -> 24
                    [] iv.interval = "Weekly" -> 7 * 24
        candidate == (IF iv.last.some THEN iv.last.v ELSE iv.now) + period
    IN  /\ iv.next.some
        /\ iv.next.v = (IF candidate >= iv.now THEN candidate - iv.now ELSE 0)
        /\ iv.next.v >= 0
        /\ iv.now + iv.next.v >= iv.now

\* The catch-up case: the last instant is more than a week before now.
C10_WeeklyCatchUp ==
  /\ iv.phase = "next"
  /\ iv.interval = "Weekly"
  /\ iv.last.some /\ iv.last.v + 168 < iv.now
  /\ iv.next = Some(0)

\* C11: when the application has exited by itself with no timer ready and no
\* shutdown, the select! returns what the application's slot holds, and the exit
\* code of the program is the application's exit code when it has one in 0..255
\* and 1 otherwise (killed by a signal, a code outside 0..255, a failed wait).
C11_ExitMirrorsApp ==
  /\ [][run.pc = "select" /\ run'.pc = "returned" /\ ~shutdown /\ TimersPending =>
          /\ Populated(procs[run.process].slot)
          /\ run'.result = WaitResult(procs[run.process])]_vars
  /\ [](run.exit.some /\ run.result.tag \in {"Ok", "Err"} =>
          run.exit.v = IF /\ run.result.tag = "Ok"
                          /\ run.result.st.exited
                          /\ run.result.st.n \in 0..255
                         THEN run.result.st.n
                         ELSE 1)

\* The program has exited with the highest code an application can exit with.
C11_Exit255 ==
  /\ run.result = ResOk(Exited(255))
  /\ run.exit = Some(255)
  /\ ~shutdown

C13_RestoreFailureIsFatal ==
  [][/\ run.pc = "start" /\ run' # run /\ cfg.backup /\ ~cfg.src_exists
          /\ procs' = procs =>
            run'.pc = "returned" /\ run'.result = ResErr
     /\ run.pc = "restore_wait" /\ run' # run
          /\ ~(procs[run.child].slot.tag = "Ok" /\ Success(procs[run.child].slot.st)) =>
            run'.pc = "returned" /\ run'.result = ResErr /\ OfKind("app") = {}]_vars

\* C14: a backup command that fails to spawn, or whose wait fails, or whose
\* process ends with anything but exit code 0, makes run return an error at that
\* step without spawning anything (under StopApp the stopped application is not
\* spawned again); once run has returned it stays returned with that result and
\* nothing is spawned any more, and the program exits with a non-zero code.
C14_BackupFailureIsFatal ==
  /\ [][/\ run.pc = "backup_stop" /\ run' # run /\ Len(procs') = Len(procs) =>
              run'.pc = "returned" /\ run'.result = ResErr
        /\ run.pc = "select" /\ run'.pc = "returned"
             /\ ~Populated(procs[run.process].slot) =>
              run'.result = ResErr /\ Len(procs') = Len(procs)
        /\ run.pc = "backup_wait" /\ run' # run
             /\ procs[run.child].slot # SlotOk(Exited(0)) =>
              /\ run'.pc = "returned" /\ run'.result = ResErr
              /\ Len(procs') = Len(procs)
              /\ \A p \in Pids : procs'[p].kind = procs[p].kind
        /\ run.pc = "returned" =>
              /\ run'.pc = "returned" /\ run'.result = run.result
              /\ Len(procs') = Len(procs)]_vars
  /\ [](run.exit.some /\ run.result = ResErr => run.exit.v # 0)

\* The backup process, run while the application was stopped, exited with code 1:
\* run has returned the error and no application runs.
C14_BackupFailedAppStopped ==
  /\ cfg.backup /\ StoppingApp
  /\ run.pc = "returned" /\ run.result = ResErr
  /\ \E p \in OfKind("backup") : TRUE
  /\ \A p \in OfKind("app") : procs[p].os = "exited"
  /\ Cardinality(OfKind("app")) = 1
  /\ run.exit = Some(1)

\* C15 (as stated): for every interval, last backup time and now, next_backup_time
\* yields a duration (its unwrap does not panic), and that duration is the one
\* Interval::next(last, now) yields: (last or now) + period - now when that is not
\* negative, and zero when last + period < now.
C15_NextBackupTimeIsIntervalNext ==
  iv.phase = "done" =>
    /\ iv.backup_time.some
    /\ iv.backup_time = iv.next
    /\ iv.backup_time.v >= 0

\* C16 (as stated): when the shutdown token is raised as the loop comes to its
\* select!, also with a backup or update timer due, the next step of run is its
\* return: no backup or update workflow is started and no process is spawned.
C16_ShutdownCheckedBeforeIteration ==
  [][run.pc = "select" /\ shutdown /\ run' # run =>
        /\ run'.pc = "returned"
        /\ Len(procs') = Len(procs)]_vars

\* C17 (as stated): when an exit monitor takes the shutdown arm of its race for a
\* running child and SIGTERM cannot be delivered, the monitor does not return at
\* that step: it goes on to the grace wait or the forced kill with the slot still
\* empty, so that the slot is populated later with the status the child ends with.
C17_EscalationSurvivesSigtermFailure ==
  [][\A p \in Pids :
        (/\ run'.pc # "returned"
         /\ procs[p].mon = "race" /\ procs[p].os = "running"
         /\ procs'[p].mon # "race" /\ ~procs'[p].sigterm)
        => (/\ procs'[p].mon \in {"grace", "killwait"}
            /\ procs'[p].slot = SlotNone)]_vars

\* C18: a monitor that finds its child exited while the shutdown token is not
\* raised returns at that step and records the status the child exited with (or
\* the error of the wait), and no SIGTERM and no forced kill has been sent to any
\* process while the token is not raised; SIGTERM is sent to a process only by a
\* monitor that has not yet observed the exit, with the token raised.
C18_NaturalExitWinsRace ==
  /\ [](\A p \in Pids :
          procs[p].sigterm \/ procs[p].kill # "no" \/ procs[p].mon \in {"grace", "killwait"}
            => shutdown)
  /\ [][\A p \in Pids :
          /\ (run'.pc # "returned" /\ ~shutdown
                /\ procs[p].mon = "race" /\ procs'[p].mon # "race")
             => (/\ procs[p].os = "exited"
                 /\ procs'[p].mon = "done"
                 /\ procs'[p].handle =>
                      procs'[p].slot \in {SlotOk(procs[p].status), SlotErr}
                 /\ ~procs'[p].sigterm /\ procs'[p].kill = "no")
          /\ (~procs[p].sigterm /\ procs'[p].sigterm)
             => shutdown /\ procs[p].mon = "race"]_vars

\* The application exited with code 1 while nobody had raised shutdown: its
\* monitor has recorded that status, and run still sleeps in its select!.
C18_NaturalExitRecorded ==
  /\ ~shutdown
  /\ run.pc = "select"
  /\ procs[run.process].mon = "done"
  /\ procs[run.process].slot = SlotOk(Exited(1))

\* The positions of run before the application is first spawned, and in the loop.
BeforeApp == {"start", "restore_wait", "init_pull", "pull_wait", "pull_query"}

InLoop ==
  {"select", "backup_stop", "backup_wait", "update_old", "update_wait",
   "update_new", "update_stop"}

\* C20: run decides about the restore once, as its first step, and never comes
\* back to it; while run is before the spawn of the application no application
\* process exists, and when one exists the restore is over: it was skipped, or its
\* one process was waited for until its monitor had returned; the first
\* application is spawned from init_pull_image's return only, and run is in its
\* loop only with an application process that it holds or has just stopped.
C20_StartupOrder ==
  /\ [](/\ run.pc \in BeforeApp => OfKind("app") = {}
        /\ OfKind("app") # {} =>
             /\ Cardinality(OfKind("restore")) <= 1
             /\ \A p \in OfKind("restore") : procs[p].mon = "done"
             /\ \A p \in OfKind("restore"), q \in OfKind("app") : p < q
        /\ run.pc \in InLoop =>
             run.process \in OfKind("app") /\ \A q \in OfKind("app") : q <= run.process)
  /\ [][/\ run.pc # "start" => run'.pc # "start"
        /\ OfKind("app") = {} /\ Len(procs') > Len(procs)
             /\ procs'[Len(procs')].kind = "app" =>
             run.pc \in {"init_pull", "pull_query"} /\ run'.pc \in {"snapshot", "select"}
        /\ run.pc \notin InLoop /\ run'.pc \in InLoop =>
             run.pc \in {"init_pull", "pull_query", "snapshot"}]_vars

\* The first iteration of the loop: the restore and the pull of the image are
\* over, the application was spawned third and runs, and no hour has passed.
C20_FirstIteration ==
  /\ run.pc = "select"
  /\ now = 0
  /\ OfKind("restore") = {1}
  /\ OfKind("pull_image") = {2}
  /\ run.process = 3
  /\ procs[3].os = "running"

\* Both workflows of the tie have run, in either order, and run is back in its
\* select! at the instant of the tie.
TieDone ==
  /\ run.pc = "select"
  /\ now = 1
  /\ Cardinality(OfKind("backup")) = 1
  /\ Cardinality(OfKind("update")) = 1

\* C19 (as stated): from a tie of the backup timer and the update timer, with the
\* operator never raising shutdown and no monitor having returned an error,
\* whichever order the two workflows ran in, run is then in its loop with both
\* timers re-armed in the future and exactly one application process, the one it
\* holds, which the supervisor has sent no signal to.
C19_TieConverges ==
  TieDone /\ ~ctrlC /\ (\A p \in Pids : procs[p].slot # SlotErr) =>
    /\ run.next_backup.some /\ run.next_backup.v > now
    /\ run.next_update.some /\ run.next_update.v > now
    /\ \A p \in OfKind("app") : procs[p].os = "running" => p = run.process
    /\ ~procs[run.process].sigterm
    /\ procs[run.process].kill = "no"
    /\ ~procs[run.process].dropkill

\* C21 (as stated): at every instant at most one application process is alive,
\* and an application process is spawned only when every application process
\* spawned before it has exited, also when the slot of the previous one holds an
\* error.
C21_OneLiveApp ==
  /\ [](Cardinality({p \in OfKind("app") : procs[p].os = "running"}) <= 1)
  /\ [][Len(procs') > Len(procs) /\ procs'[Len(procs')].kind = "app" =>
          \A p \in OfKind("app") : procs[p].os = "exited"]_vars

\* C22 (as stated): when run has returned (Ok or Err, not a panic) with the
\* shutdown token raised, and no exit monitor has returned while its child still
\* ran (no signal failed to be delivered), no process spawned by Process::new is
\* still alive.
C22_NoChildLeftAfterShutdown ==
  /\ shutdown
  /\ run.pc = "returned" /\ run.result.tag \in {"Ok", "Err"}
  /\ \A p \in Pids : ~(procs[p].mon = "done" /\ procs[p].os = "running")
  => \A p \in Pids : procs[p].os = "exited"

====
